---- MODULE Spec2Model ----
(***************************************************************************)
(* Model of the X11 backend of global-hotkey                               *)
(* (Source/platform_impl/x11/mod.rs) and of HotKey (src/hotkey.rs).        *)
(*                                                                         *)
(* One worker thread (events_processor) owns the registration table and    *)
(* the grabs; caller threads talk to it over the command channel           *)
(* (unbounded) and one reply channel of capacity 1 per call.               *)
(***************************************************************************)
EXTENDS Integers, Sequences, FiniteSets, TLC

(* ------------------------------ bounds --------------------------------- *)

\* number of caller threads sharing the manager handle
NumCallers == 1
\* longest slice handed to register_all / unregister_all
MaxBatch == 2
\* most native events waiting in the X event queue
MaxPending == 1

(* ------------------------- X11 constants (x11-dl) ---------------------- *)

ShiftMask == 1
LockMask == 2
ControlMask == 4
Mod1Mask == 8
Mod2Mask == 16
Mod4Mask == 64
BadAccess == 10
KeyPress == 2
KeyRelease == 3
XK_F1 == 65470

(* ----------------------------- bit operations -------------------------- *)

RECURSIVE BitAnd(_, _)
BitAnd(a, b) ==
    IF a = 0 \/ b = 0 THEN 0
    ELSE (a % 2) * (b % 2) + 2 * BitAnd(a \div 2, b \div 2)

RECURSIVE BitOr(_, _)
BitOr(a, b) ==
    IF a = 0 THEN b
    ELSE IF b = 0 THEN a
    ELSE (IF (a % 2) + (b % 2) > 0 THEN 1 ELSE 0) + 2 * BitOr(a \div 2, b \div 2)

(* ------------------------------- HotKey -------------------------------- *)

\* the string generate_hash builds, as the list of the pieces it pushes
HashString(mods, key) ==
    (IF "SHIFT" \in mods THEN <<"shift+">> ELSE <<>>)
    \o (IF "CONTROL" \in mods THEN <<"control+">> ELSE <<>>)
    \o (IF "ALT" \in mods THEN <<"alt+">> ELSE <<>>)
    \o (IF "SUPER" \in mods THEN <<"super+">> ELSE <<>>)
    \o <<key>>

\* DefaultHasher over that string.  The hash is modelled as a positional
\* code of the pieces: it is collision free on the keys of this model and
\* stays far below 2^32, so the cut `as u32` changes nothing.
PieceCode(p) ==
    CASE p = "shift+" -> 1
      [] p = "control+" -> 2
      [] p = "alt+" -> 3
      [] p = "super+" -> 4
      [] p = "F1" -> 5
      [] p = "NumLock" -> 6
      [] p = "F13" -> 7
      [] OTHER -> 8

RECURSIVE DefaultHasher(_)
DefaultHasher(str) ==
    IF str = <<>> THEN 0
    ELSE PieceCode(Head(str)) + 9 * DefaultHasher(Tail(str))

\* HotKey::new
HotKeyNew(mods, key) ==
    LET m == IF "META" \in mods THEN (mods \ {"META"}) \cup {"SUPER"} ELSE mods
    IN  [mods |-> m, key |-> key, id |-> DefaultHasher(HashString(m, key))]

\* the hotkeys the callers of this model use: two logical keys that share a
\* key symbol, a second modifier set on the same key, and a key without a
\* native translation
HotKeys ==
    { HotKeyNew({"CONTROL"}, "F1"),
      HotKeyNew({"CONTROL"}, "NumLock"),
      HotKeyNew({"SHIFT"}, "F1"),
      HotKeyNew({"CONTROL"}, "F13") }

(* --------------------------- parsing a HotKey -------------------------- *)

\* A &str is modelled as the sequence of its characters.

LowerCase == <<"a", "b", "c", "d", "e", "f", "g", "h", "i", "j", "k", "l", "m",
               "n", "o", "p", "q", "r", "s", "t", "u", "v", "w", "x", "y", "z">>
UpperCase == <<"A", "B", "C", "D", "E", "F", "G", "H", "I", "J", "K", "L", "M",
               "N", "O", "P", "Q", "R", "S", "T", "U", "V", "W", "X", "Y", "Z">>

\* char::to_uppercase on the characters of this model
UpperChar(c) ==
    IF \E i \in 1..Len(LowerCase) : LowerCase[i] = c
    THEN UpperCase[CHOOSE i \in 1..Len(LowerCase) : LowerCase[i] = c]
    ELSE c

\* str::to_uppercase().as_str(): the upper-cased text as one string
RECURSIVE to_uppercase(_)
to_uppercase(str) ==
    IF str = <<>> THEN "" ELSE UpperChar(Head(str)) \o to_uppercase(Tail(str))

\* the text as one string, as it stands
RECURSIVE to_string(_)
to_string(str) ==
    IF str = <<>> THEN "" ELSE Head(str) \o to_string(Tail(str))

\* str::split('+').collect::<Vec<&str>>()
RECURSIVE split(_)
split(str) ==
    IF \A i \in 1..Len(str) : str[i] # "+" THEN <<str>>
    ELSE LET i == CHOOSE i \in 1..Len(str) :
                     str[i] = "+" /\ \A j \in 1..(i - 1) : str[j] # "+"
         IN  <<SubSeq(str, 1, i - 1)>> \o split(SubSeq(str, i + 1, Len(str)))

\* str::trim()
RECURSIVE trim(_)
trim(str) ==
    IF str = <<>> THEN str
    ELSE IF Head(str) = " " THEN trim(Tail(str))
    ELSE IF str[Len(str)] = " " THEN trim(SubSeq(str, 1, Len(str) - 1))
    ELSE str

ParsedOk(hotkey) == [kind |-> "Ok", hotkey |-> hotkey]
ParseErr(error, text) == [kind |-> "Err", error |-> error, text |-> to_string(text)]
\* key.unwrap() on None
Panicked == [kind |-> "Panic"]

\* parse_key, for the three logical keys of this model: Ok(Code) or
\* Err(UnrecognizedHotKeyCode)
parse_key(key) ==
    LET u == to_uppercase(key)
    IN  CASE u = "NUMLOCK" -> [kind |-> "Ok", code |-> "NumLock"]
          [] u = "F1" -> [kind |-> "Ok", code |-> "F1"]
          [] u = "F13" -> [kind |-> "Ok", code |-> "F13"]
          [] OTHER -> ParseErr("UnrecognizedHotKeyCode", key)

NoCode == "None"

\* the `for raw in tokens` loop of parse_hotkey from token i on, and the
\* closing Ok(HotKey::new(Some(mods), key.unwrap()))
RECURSIVE ParseTokens(_, _, _, _, _)
ParseTokens(tokens, i, mods, key, hotkey) ==
    IF i > Len(tokens)
    THEN IF key = NoCode THEN Panicked ELSE ParsedOk(HotKeyNew(mods, key))
    ELSE LET token == trim(tokens[i])
             u == to_uppercase(token)
         IN  IF token = <<>> THEN ParseErr("EmptyHotKeyToken", hotkey)
             ELSE IF key # NoCode THEN ParseErr("UnexpectedHotKeyFormat", hotkey)
             ELSE IF u \in {"OPTION", "ALT"}
                  THEN ParseTokens(tokens, i + 1, mods \cup {"ALT"}, key, hotkey)
             ELSE IF u \in {"CONTROL", "CTRL"}
                  THEN ParseTokens(tokens, i + 1, mods \cup {"CONTROL"}, key, hotkey)
             ELSE IF u \in {"COMMAND", "CMD", "SUPER"}
                  THEN ParseTokens(tokens, i + 1, mods \cup {"SUPER"}, key, hotkey)
             ELSE IF u = "SHIFT"
                  THEN ParseTokens(tokens, i + 1, mods \cup {"SHIFT"}, key, hotkey)
             ELSE IF u \in {"COMMANDORCONTROL", "COMMANDORCTRL", "CMDORCTRL",
                            "CMDORCONTROL"}
                  THEN ParseTokens(tokens, i + 1, mods \cup {"CONTROL"}, key, hotkey)
             ELSE LET k == parse_key(token)
                  IN  IF k.kind = "Err" THEN k
                      ELSE ParseTokens(tokens, i + 1, mods, k.code, hotkey)

\* parse_hotkey (HotKey::from_str), built for X11 (not macOS)
parse_hotkey(hotkey) ==
    LET tokens == split(hotkey)
    IN  IF Len(tokens) = 1
        THEN LET k == parse_key(tokens[1])
             IN  IF k.kind = "Err" THEN k ELSE ParsedOk(HotKeyNew({}, k.code))
        ELSE ParseTokens(tokens, 1, {}, NoCode, hotkey)

\* the modifier sets and keys the application hands to HotKey::new
NewModifiers == SUBSET {"CONTROL", "SUPER", "META", "CAPS_LOCK"}
NewCodes == {"F1", "NumLock", "F13"}

\* the pieces the strings handed to the parser are made of, and the strings:
\* up to MaxTokens pieces joined by '+'
MaxTokens == 3
Pieces ==
    { <<"c", "t", "r", "l">>, <<"C", "o", "n", "t", "r", "o", "l">>,
      <<" ", "S", "H", "i", "F", "T", " ">>, <<"c", "m", "d">>,
      <<"F", "1">>, <<"n", "u", "m", "l", "o", "c", "k">>,
      <<"F", "0">>, <<>> }
RECURSIVE Joined(_)
Joined(ps) ==
    IF Len(ps) = 1 THEN ps[1] ELSE ps[1] \o <<"+">> \o Joined(Tail(ps))
HotKeyStrings ==
    { Joined(ps) : ps \in UNION { [1..n -> Pieces] : n \in 1..MaxTokens } }

(* ------------------------ translation to X11 --------------------------- *)

NoKeysym == 0

\* keycode_to_x11_scancode: Some(keysym) or None (NoKeysym)
keycode_to_x11_scancode(key) ==
    CASE key = "NumLock" -> XK_F1
      [] key = "F1" -> XK_F1
      [] OTHER -> NoKeysym

modifiers_to_x11_mods(modifiers) ==
    LET a == IF "SHIFT" \in modifiers THEN ShiftMask ELSE 0
        b == IF modifiers \cap {"SUPER", "META"} # {} THEN BitOr(a, Mod4Mask) ELSE a
        c == IF "ALT" \in modifiers THEN BitOr(b, Mod1Mask) ELSE b
    IN  IF "CONTROL" \in modifiers THEN BitOr(c, ControlMask) ELSE c

\* XKeysymToKeycode on the keyboard mapping of the display
XKeysymToKeycode(keysym) ==
    CASE keysym = XK_F1 -> 67
      [] OTHER -> 0

\* mutant: the combination with both lock modifiers is missing from the table
IGNORED_MODS_NoBoth == <<0, Mod2Mask, LockMask>>

IGNORED_MODS == <<0, Mod2Mask, LockMask, BitOr(Mod2Mask, LockMask)>>

(* ------------------------------ results -------------------------------- *)

Ok == <<"Ok">>
AlreadyRegistered(hotkey) == <<"Err", "AlreadyRegistered", hotkey>>
FailedToRegister(hotkey) == <<"Err", "FailedToRegister", hotkey>>
FailedToUnRegister(hotkey) == <<"Err", "FailedToUnRegister", hotkey>>
IsErr(r) == r[1] = "Err"

(* ------------------------------- state --------------------------------- *)

VARIABLES
    hotkeys,    \* the table: keycode -> list of <<id, mods, pressed>>
    grabs,      \* <<keycode, modifiers>> passive grabs this client holds
    otherGrabs, \* <<keycode, modifiers>> grabs another client holds
    xq,         \* native events pending on the display connection
    sent,       \* GlobalHotKeyEvents sent for the latest event of this drain
    thread_q,   \* the command channel (thread_tx -> thread_rx)
    wpc,        \* where the worker is
    cur,        \* the batch message the worker is working on
    sending,    \* the reply the worker is about to send on cur.tx
    reply,      \* per caller: the buffer of its reply channel
    cpc,        \* per caller: "idle", "waiting", "returned"
    ret,        \* per caller: what its last call returned
    dropped,    \* the manager handle has been dropped
    batch_log,  \* history: <<hotkey, result>> of the items of cur done so far
    last_unreg, \* history: the hotkey whose entry the latest unregister_hotkey
                \* removed, whether it was pressed then, and whether the
                \* register_hotkey right after it has registered it again
    notes,      \* history: whether the notifications are followed (.kept),
                \* the ids with a Pressed sent and no Released sent since
                \* (.unmatched), and those of them whose latest Pressed was
                \* sent while an earlier one was unmatched (.twice)
    h1, h2      \* two values the application built with HotKey::new or by
                \* parsing a string (as in test_equality), or NotBuilt

vars == <<hotkeys, grabs, otherGrabs, xq, sent, thread_q, wpc, cur, sending,
          reply, cpc, ret, dropped, batch_log, last_unreg, notes, h1, h2>>

\* the history variables
hist == <<batch_log, last_unreg, notes>>

\* the values built by the application
built == <<h1, h2>>

Callers == 1..NumCallers

\* a message: tx is the caller holding the Receiver of its reply channel, or
\* 0 once that Receiver has been dropped; caller is who sent it
NoMsg == [kind |-> "None", keys |-> <<>>, tx |-> 0, caller |-> 0]
NoUnreg == [id |-> 0, pressed |-> FALSE, again |-> FALSE]
NoReply == <<"None">>
NotBuilt == [kind |-> "None"]

(* --------------------------- Grab Controller --------------------------- *)

\* the four (keycode, modifiers | m) combinations of one hotkey
Variants(keycode, modifiers) ==
    { <<keycode, BitOr(modifiers, IGNORED_MODS[i])>> : i \in 1..Len(IGNORED_MODS) }

\* XGrabKey: BadAccess when another client holds the combination
XGrabKey(og, keycode, m) ==
    IF <<keycode, m>> \in og THEN BadAccess ELSE 1

\* mutant: on BadAccess the grabs taken so far are not released
RECURSIVE GrabLoopNoRollback(_, _, _, _, _)
GrabLoopNoRollback(gr, og, keycode, modifiers, i) ==
    IF i > Len(IGNORED_MODS) THEN [conflict |-> FALSE, grabs |-> gr]
    ELSE LET m == BitOr(modifiers, IGNORED_MODS[i])
         IN  IF XGrabKey(og, keycode, m) = BadAccess
             THEN [conflict |-> TRUE, grabs |-> gr]
             ELSE GrabLoopNoRollback(gr \cup {<<keycode, m>>}, og, keycode,
                                     modifiers, i + 1)

\* the grab loop of register_hotkey, from IGNORED_MODS[i] on
RECURSIVE GrabLoop(_, _, _, _, _)
GrabLoop(gr, og, keycode, modifiers, i) ==
    IF i > Len(IGNORED_MODS) THEN [conflict |-> FALSE, grabs |-> gr]
    ELSE LET m == BitOr(modifiers, IGNORED_MODS[i])
         IN  IF XGrabKey(og, keycode, m) = BadAccess
             THEN [conflict |-> TRUE, grabs |-> gr \ Variants(keycode, modifiers)]
             ELSE GrabLoop(gr \cup {<<keycode, m>>}, og, keycode, modifiers, i + 1)

\* hotkeys.entry(keycode).or_default()
Entry(hk, keycode) ==
    IF keycode \in DOMAIN hk THEN hk ELSE hk @@ (keycode :> <<>>)

\* mutant: retain keeps every entry
RetainAll(entry, modifiers) ==
    entry

\* mutant: the closure compares the wrong field of the tuple (e.0, the id)
FindEntryWrongField(entry, modifiers) ==
    \E i \in 1..Len(entry) : entry[i][1] = modifiers

\* mutant: only the first entry of the list is looked at
FindEntryFirstOnly(entry, modifiers) ==
    entry # <<>> /\ entry[1][2] = modifiers

\* entry.iter().find(|e| e.1 == modifiers) is Some
FindEntry(entry, modifiers) ==
    \E i \in 1..Len(entry) : entry[i][2] = modifiers

\* entry.retain(|k| k.1 != modifiers)
Retain(entry, modifiers) ==
    SelectSeq(entry, LAMBDA k : k[2] # modifiers)

register_hotkey(hk, gr, og, hotkey) ==
    LET modifiers == modifiers_to_x11_mods(hotkey.mods)
        key == keycode_to_x11_scancode(hotkey.key)
    IN  IF key # NoKeysym
        THEN LET keycode == XKeysymToKeycode(key)
                 g == GrabLoop(gr, og, keycode, modifiers, 1)
             IN  IF g.conflict
                 THEN [result |-> AlreadyRegistered(hotkey),
                       hotkeys |-> hk, grabs |-> g.grabs]
                 ELSE LET t == Entry(hk, keycode)
                      IN  IF FindEntry(t[keycode], modifiers)
                          THEN [result |-> AlreadyRegistered(hotkey),
                                hotkeys |-> t, grabs |-> g.grabs]
                          ELSE [result |-> Ok,
                                hotkeys |-> [t EXCEPT ![keycode] =
                                    Append(@, <<hotkey.id, modifiers, FALSE>>)],
                                grabs |-> g.grabs]
        ELSE [result |-> FailedToRegister(hotkey), hotkeys |-> hk, grabs |-> gr]

\* mutant: the entry is removed but the XUngrabKey loop is missing
unregister_hotkeyKeepsGrabs(hk, gr, hotkey) ==
    LET modifiers == modifiers_to_x11_mods(hotkey.mods)
        key == keycode_to_x11_scancode(hotkey.key)
    IN  IF key # NoKeysym
        THEN LET keycode == XKeysymToKeycode(key)
                 t == Entry(hk, keycode)
             IN  [result |-> Ok,
                  hotkeys |-> [t EXCEPT ![keycode] = Retain(@, modifiers)],
                  grabs |-> gr]
        ELSE [result |-> FailedToUnRegister(hotkey), hotkeys |-> hk, grabs |-> gr]

\* mutant: the result of the key translation is not tested
unregister_hotkeyNoCheck(hk, gr, hotkey) ==
    LET modifiers == modifiers_to_x11_mods(hotkey.mods)
        keycode == XKeysymToKeycode(keycode_to_x11_scancode(hotkey.key))
        t == Entry(hk, keycode)
    IN  [result |-> Ok,
         hotkeys |-> [t EXCEPT ![keycode] = Retain(@, modifiers)],
         grabs |-> gr \ Variants(keycode, modifiers)]

unregister_hotkey(hk, gr, hotkey) ==
    LET modifiers == modifiers_to_x11_mods(hotkey.mods)
        key == keycode_to_x11_scancode(hotkey.key)
    IN  IF key # NoKeysym
        THEN LET keycode == XKeysymToKeycode(key)
                 t == Entry(hk, keycode)
             IN  [result |-> Ok,
                  hotkeys |-> [t EXCEPT ![keycode] = Retain(@, modifiers)],
                  grabs |-> gr \ Variants(keycode, modifiers)]
        ELSE [result |-> FailedToUnRegister(hotkey), hotkeys |-> hk, grabs |-> gr]

(* ------------------------- native key events --------------------------- *)

\* mutant: the event's state is compared unmasked
EventModsUnmasked(state) ==
    state

\* event.key.state & (ControlMask | ShiftMask | Mod4Mask | Mod1Mask)
EventMods(state) ==
    BitAnd(state, BitOr(ControlMask, BitOr(ShiftMask, BitOr(Mod4Mask, Mod1Mask))))

\* mutant: the pressed flag is not looked at
PressMatchesAnyFlag(e, event_mods) ==
    event_mods = e[2]

\* the test of the KeyPress arm on one entry
PressMatches(e, event_mods) ==
    event_mods = e[2] /\ ~e[3]

\* the test of the KeyRelease arm on one entry
ReleaseMatches(e) ==
    e[3]

\* the KeyPress arm over one keycode's list: the new list and the events sent
HandleKeyPress(entry, event_mods) ==
    LET hit == SelectSeq(entry, LAMBDA e : PressMatches(e, event_mods))
    IN  [entry |-> [i \in 1..Len(entry) |->
                       IF PressMatches(entry[i], event_mods)
                       THEN <<entry[i][1], entry[i][2], TRUE>> ELSE entry[i]],
         sent |-> [i \in 1..Len(hit) |-> <<hit[i][1], "Pressed">>]]

\* mutant: the KeyRelease arm clears the pressed flags and sends nothing
HandleKeyReleaseNoEvent(entry) ==
    [entry |-> [i \in 1..Len(entry) |->
                   IF ReleaseMatches(entry[i])
                   THEN <<entry[i][1], entry[i][2], FALSE>> ELSE entry[i]],
     sent |-> <<>>]

\* the KeyRelease arm over one keycode's list
HandleKeyRelease(entry) ==
    LET hit == SelectSeq(entry, ReleaseMatches)
    IN  [entry |-> [i \in 1..Len(entry) |->
                       IF ReleaseMatches(entry[i])
                       THEN <<entry[i][1], entry[i][2], FALSE>> ELSE entry[i]],
         sent |-> [i \in 1..Len(hit) |-> <<hit[i][1], "Released">>]]

\* mutant: the KeyRelease arm only releases entries whose mask matches the
\* event's modifier state, like the KeyPress arm
HandleEventReleaseMatchesMods(hk, event) ==
    IF event.type \in {KeyPress, KeyRelease} /\ event.keycode \in DOMAIN hk
    THEN LET entry == hk[event.keycode]
             m == EventMods(event.state)
             hit == SelectSeq(entry, LAMBDA e : e[3] /\ e[2] = m)
             r == IF event.type = KeyPress
                  THEN HandleKeyPress(entry, m)
                  ELSE [entry |-> [i \in 1..Len(entry) |->
                                      IF entry[i][3] /\ entry[i][2] = m
                                      THEN <<entry[i][1], entry[i][2], FALSE>>
                                      ELSE entry[i]],
                        sent |-> [i \in 1..Len(hit) |-> <<hit[i][1], "Released">>]]
         IN  [hotkeys |-> [hk EXCEPT ![event.keycode] = r.entry], sent |-> r.sent]
    ELSE [hotkeys |-> hk, sent |-> <<>>]

\* the body of the drain loop for one event
HandleEvent(hk, event) ==
    IF event.type \in {KeyPress, KeyRelease} /\ event.keycode \in DOMAIN hk
    THEN LET r == IF event.type = KeyPress
                  THEN HandleKeyPress(hk[event.keycode], EventMods(event.state))
                  ELSE HandleKeyRelease(hk[event.keycode])
         IN  [hotkeys |-> [hk EXCEPT ![event.keycode] = r.entry], sent |-> r.sent]
    ELSE [hotkeys |-> hk, sent |-> <<>>]

\* the key events the display delivers in this model
EventKeycodes == {XKeysymToKeycode(XK_F1)}
EventStates ==
    { BitOr(ControlMask, IGNORED_MODS[i]) : i \in 1..Len(IGNORED_MODS) }
    \cup {ShiftMask, BitOr(ControlMask, ShiftMask)}
Events ==
    [type : {KeyPress, KeyRelease}, keycode : EventKeycodes, state : EventStates]

\* the combinations the other client of this model grabs
OtherCombos == { <<XKeysymToKeycode(XK_F1), BitOr(ControlMask, Mod2Mask)>> }

(* ---------------------------- channels --------------------------------- *)

\* the Sender of caller c's reply channel still exists (in a queued message
\* or in the message the worker is handling)
TxAlive(c) ==
    \/ \E i \in 1..Len(thread_q) : thread_q[i].tx = c
    \/ cur.tx = c

\* tx.send(r) on a bounded(1) channel can return: the receiver is gone
\* (tx = 0) or the buffer has room
CanSend(tx) ==
    IF tx = 0 THEN TRUE ELSE Len(reply[tx]) < 1

\* the reply buffers after tx.send(r)
Send(tx, r) ==
    IF tx = 0 THEN reply ELSE [reply EXCEPT ![tx] = Append(@, r)]

BatchSeqs == UNION { [1..n -> HotKeys] : n \in 0..MaxBatch }

(* ------------------------------ Init ----------------------------------- *)

\* the program's state after GlobalHotKeyManager::new
Constructed ==
    /\ hotkeys = <<>>
    /\ grabs = {}
    /\ otherGrabs = {}
    /\ xq = <<>>
    /\ sent = <<>>
    /\ thread_q = <<>>
    /\ wpc = "start"
    /\ cur = NoMsg
    /\ sending = NoReply
    /\ reply = [c \in Callers |-> <<>>]
    /\ cpc = [c \in Callers |-> "idle"]
    /\ ret = [c \in Callers |-> NoReply]
    /\ dropped = FALSE
    /\ batch_log = <<>>
    /\ last_unreg = NoUnreg
    /\ h1 = NotBuilt
    /\ h2 = NotBuilt

\* no notification sent, and the notifications are not followed
NoNotes == [kept |-> FALSE, unmatched |-> {}, twice |-> {}]

\* the state after GlobalHotKeyManager::new
Init == Constructed /\ notes = NoNotes

(* ---------------------------- caller side ------------------------------ *)

\* the first half of register / unregister / register_all / unregister_all:
\* make the reply channel, send the message, start waiting in rx.recv()
Call(c, kind, keys) ==
    /\ ~dropped
    /\ cpc[c] # "waiting"
    /\ thread_q' = IF wpc = "done" THEN thread_q
                   ELSE Append(thread_q, [kind |-> kind, keys |-> keys, tx |-> c, caller |-> c])
    /\ cpc' = [cpc EXCEPT ![c] = "waiting"]
    /\ reply' = [reply EXCEPT ![c] = <<>>]
    /\ ret' = [ret EXCEPT ![c] = NoReply]
    /\ UNCHANGED <<built, hotkeys, grabs, otherGrabs, xq, sent, wpc, cur, sending, dropped, hist>>

Register(c) ==
    \E h \in HotKeys : Call(c, "RegisterHotKey", <<h>>)

Unregister(c) ==
    \E h \in HotKeys : Call(c, "UnRegisterHotKey", <<h>>)

RegisterAll(c) ==
    \E keys \in BatchSeqs : Call(c, "RegisterHotKeys", keys)

UnregisterAll(c) ==
    \E keys \in BatchSeqs : Call(c, "UnRegisterHotKeys", keys)

\* mutant: the received result is not propagated (`result?` left out)
RecvResultIgnored(buf) ==
    Ok

\* what rx.recv() followed by `result?; Ok(())` returns
RecvResult(buf) ==
    IF buf # <<>> THEN Head(buf) ELSE Ok

\* the second half: rx.recv() returns, the call returns and drops rx
Return(c) ==
    /\ cpc[c] = "waiting"
    /\ reply[c] # <<>> \/ ~TxAlive(c)
    /\ ret' = [ret EXCEPT ![c] = RecvResult(reply[c])]
    /\ reply' = [reply EXCEPT ![c] = <<>>]
    /\ cpc' = [cpc EXCEPT ![c] = "returned"]
    /\ cur' = IF cur.tx = c THEN [cur EXCEPT !.tx = 0] ELSE cur
    /\ UNCHANGED <<built, hotkeys, grabs, otherGrabs, xq, sent, thread_q, wpc, sending, dropped, hist>>

\* Drop for GlobalHotKeyManager: no call borrows the handle any more
DropManager ==
    /\ ~dropped
    /\ \A c \in Callers : cpc[c] # "waiting"
    /\ dropped' = TRUE
    /\ thread_q' = IF wpc = "done" THEN thread_q
                   ELSE Append(thread_q, [kind |-> "DropThread", keys |-> <<>>, tx |-> 0, caller |-> 0])
    /\ UNCHANGED <<built, hotkeys, grabs, otherGrabs, xq, sent, wpc, cur, sending, reply, cpc, ret, hist>>

(* ---------------------------- worker side ------------------------------ *)

\* history: what last_unreg records when unregister_hotkey(hotkey) gave
\* result r from table hk: the hotkey and whether its entry was pressed,
\* when the hotkey's own entry (its id) was in the table; nothing otherwise
UnregRecord(hk, hotkey, r) ==
    IF IsErr(r) THEN NoUnreg
    ELSE LET k == XKeysymToKeycode(keycode_to_x11_scancode(hotkey.key))
             own == IF k \in DOMAIN hk
                    THEN SelectSeq(hk[k], LAMBDA e : e[1] = hotkey.id)
                    ELSE <<>>
         IN  IF own = <<>> THEN NoUnreg
             ELSE [id |-> hotkey.id, pressed |-> own[1][3], again |-> FALSE]

\* history: last_unreg after register_hotkey(hotkey) gave result r: the
\* hotkey removed by the command before has been registered again
RegRecord(hotkey, r) ==
    IF last_unreg.id = hotkey.id /\ ~last_unreg.again /\ r = Ok
    THEN [last_unreg EXCEPT !.again = TRUE]
    ELSE NoUnreg

\* the ids of the events of kind `state` in the list `s` of sent events
IdsSent(s, state) == { s[i][1] : i \in { j \in 1..Len(s) : s[j][2] = state } }

\* history: the notes after the events `s` of one native event were sent
Noted(n, s) ==
    IF n.kept
    THEN [unmatched |-> (n.unmatched \cup IdsSent(s, "Pressed"))
                            \ IdsSent(s, "Released"),
          twice |-> IF IdsSent(s, "Pressed") \cap n.unmatched # {}
                    THEN IdsSent(s, "Pressed") \cap n.unmatched
                    ELSE n.twice \ IdsSent(s, "Released"),
          kept |-> TRUE]
    ELSE n

\* events_processor starts: Xlib::open and XOpenDisplay succeed
XlibOpen ==
    /\ wpc = "start"
    /\ wpc' = "drain"
    /\ UNCHANGED <<built, hotkeys, grabs, otherGrabs, xq, sent, thread_q, cur, sending,
                   reply, cpc, ret, dropped, hist>>

\* mutant: the worker ends but thread_rx and the messages in it stay alive
XlibOpenFailsKeepsChannel ==
    /\ wpc = "start"
    /\ wpc' = "done"
    /\ UNCHANGED <<built, hotkeys, grabs, otherGrabs, xq, sent, thread_q, cur, sending,
                   reply, cpc, ret, dropped, hist>>

\* Xlib::open fails: events_processor returns and thread_rx is dropped,
\* with the messages already in it
XlibOpenFails ==
    /\ wpc = "start"
    /\ wpc' = "done"
    /\ thread_q' = <<>>
    /\ UNCHANGED <<built, hotkeys, grabs, otherGrabs, xq, sent, cur, sending,
                   reply, cpc, ret, dropped, hist>>

\* one turn of `while XPending(display) > 0`: XNextEvent and the match on it
DrainEvent ==
    /\ wpc = "drain"
    /\ xq # <<>>
    /\ LET r == HandleEvent(hotkeys, Head(xq))
       IN  /\ hotkeys' = r.hotkeys
           /\ sent' = r.sent
           /\ notes' = Noted(notes, r.sent)
    /\ xq' = Tail(xq)
    /\ UNCHANGED <<built, grabs, otherGrabs, thread_q, wpc, cur, sending,
                   reply, cpc, ret, dropped, batch_log, last_unreg>>

\* XPending(display) = 0: the drain loop ends
DrainDone ==
    /\ wpc = "drain"
    /\ xq = <<>>
    /\ wpc' = "recv"
    /\ sent' = <<>>
    /\ UNCHANGED <<built, hotkeys, grabs, otherGrabs, xq, thread_q, cur, sending,
                   reply, cpc, ret, dropped, hist>>

\* thread_rx.try_recv() finds the channel empty
RecvNone ==
    /\ wpc = "recv"
    /\ thread_q = <<>>
    /\ wpc' = "sleep"
    /\ UNCHANGED <<built, hotkeys, grabs, otherGrabs, xq, sent, thread_q, cur, sending,
                   reply, cpc, ret, dropped, hist>>

\* mutant: `while let` for `if let`: the next command is taken at once,
\* without sleep and drain
RecvRegisterHotKeyNoSleep ==
    /\ wpc = "recv"
    /\ thread_q # <<>>
    /\ Head(thread_q).kind = "RegisterHotKey"
    /\ LET msg == Head(thread_q)
           r == register_hotkey(hotkeys, grabs, otherGrabs, msg.keys[1])
       IN  /\ hotkeys' = r.hotkeys
           /\ grabs' = r.grabs
           /\ reply' = Send(msg.tx, r.result)
           /\ last_unreg' = RegRecord(msg.keys[1], r.result)
    /\ thread_q' = Tail(thread_q)
    /\ wpc' = "recv"
    /\ UNCHANGED <<built, otherGrabs, xq, sent, cur, sending, cpc, ret, dropped, batch_log, notes>>

\* ThreadMessage::RegisterHotKey(hotkey, tx)
RecvRegisterHotKey ==
    /\ wpc = "recv"
    /\ thread_q # <<>>
    /\ Head(thread_q).kind = "RegisterHotKey"
    /\ LET msg == Head(thread_q)
           r == register_hotkey(hotkeys, grabs, otherGrabs, msg.keys[1])
       IN  /\ hotkeys' = r.hotkeys
           /\ grabs' = r.grabs
           /\ reply' = Send(msg.tx, r.result)
           /\ last_unreg' = RegRecord(msg.keys[1], r.result)
    /\ thread_q' = Tail(thread_q)
    /\ wpc' = "sleep"
    /\ UNCHANGED <<built, otherGrabs, xq, sent, cur, sending, cpc, ret, dropped, batch_log, notes>>

\* ThreadMessage::UnRegisterHotKey(hotkey, tx)
RecvUnRegisterHotKey ==
    /\ wpc = "recv"
    /\ thread_q # <<>>
    /\ Head(thread_q).kind = "UnRegisterHotKey"
    /\ LET msg == Head(thread_q)
           r == unregister_hotkey(hotkeys, grabs, msg.keys[1])
       IN  /\ hotkeys' = r.hotkeys
           /\ grabs' = r.grabs
           /\ reply' = Send(msg.tx, r.result)
           /\ last_unreg' = UnregRecord(hotkeys, msg.keys[1], r.result)
    /\ thread_q' = Tail(thread_q)
    /\ wpc' = "sleep"
    /\ UNCHANGED <<built, otherGrabs, xq, sent, cur, sending, cpc, ret, dropped, batch_log, notes>>

\* ThreadMessage::RegisterHotKeys(keys, tx) or UnRegisterHotKeys(keys, tx)
\* is taken from the channel; its loop starts
RecvBatch ==
    /\ wpc = "recv"
    /\ thread_q # <<>>
    /\ Head(thread_q).kind \in {"RegisterHotKeys", "UnRegisterHotKeys"}
    /\ cur' = Head(thread_q)
    /\ thread_q' = Tail(thread_q)
    /\ wpc' = "batch"
    /\ batch_log' = <<>>
    /\ UNCHANGED <<built, hotkeys, grabs, otherGrabs, xq, sent, sending,
                   reply, cpc, ret, dropped, last_unreg, notes>>

\* mutant: the Err of an item is dropped instead of being sent
BatchTurnDropsErr(r) ==
    /\ hotkeys' = r.hotkeys
    /\ grabs' = r.grabs
    /\ cur' = [cur EXCEPT !.keys = Tail(@)]
    /\ wpc' = "batch" /\ sending' = sending
    /\ batch_log' = Append(batch_log, <<Head(cur.keys), r.result>>)
    /\ last_unreg' = IF cur.kind = "UnRegisterHotKeys"
                     THEN UnregRecord(hotkeys, Head(cur.keys), r.result)
                     ELSE RegRecord(Head(cur.keys), r.result)
    /\ UNCHANGED <<built, otherGrabs, xq, sent, thread_q, reply, cpc, ret, dropped, notes>>

\* mutant: a failing item undoes the items of the batch registered before it
BatchTurnRollsBack(r) ==
    /\ LET undo == { batch_log[i][1].id : i \in { j \in 1..Len(batch_log) :
                                                      batch_log[j][2] = Ok } }
       IN  hotkeys' = IF IsErr(r.result)
                      THEN [k \in DOMAIN r.hotkeys |->
                              SelectSeq(r.hotkeys[k], LAMBDA e : e[1] \notin undo)]
                      ELSE r.hotkeys
    /\ grabs' = r.grabs
    /\ cur' = [cur EXCEPT !.keys = Tail(@)]
    /\ IF IsErr(r.result)
       THEN wpc' = "send" /\ sending' = r.result
       ELSE wpc' = "batch" /\ sending' = sending
    /\ batch_log' = Append(batch_log, <<Head(cur.keys), r.result>>)
    /\ last_unreg' = IF cur.kind = "UnRegisterHotKeys"
                     THEN UnregRecord(hotkeys, Head(cur.keys), r.result)
                     ELSE RegRecord(Head(cur.keys), r.result)
    /\ UNCHANGED <<built, otherGrabs, xq, sent, thread_q, reply, cpc, ret, dropped, notes>>

\* what one turn of a batch loop leaves: the item is consumed; an Err goes
\* to tx.send(Err(e)) next
BatchTurn(r) ==
    /\ hotkeys' = r.hotkeys
    /\ grabs' = r.grabs
    /\ cur' = [cur EXCEPT !.keys = Tail(@)]
    /\ IF IsErr(r.result)
       THEN wpc' = "send" /\ sending' = r.result
       ELSE wpc' = "batch" /\ sending' = sending
    /\ batch_log' = Append(batch_log, <<Head(cur.keys), r.result>>)
    /\ last_unreg' = IF cur.kind = "UnRegisterHotKeys"
                     THEN UnregRecord(hotkeys, Head(cur.keys), r.result)
                     ELSE RegRecord(Head(cur.keys), r.result)
    /\ UNCHANGED <<built, otherGrabs, xq, sent, thread_q, reply, cpc, ret, dropped, notes>>

\* one turn of `for hotkey in keys` of RegisterHotKeys
BatchRegisterItem ==
    /\ wpc = "batch"
    /\ cur.kind = "RegisterHotKeys"
    /\ cur.keys # <<>>
    /\ BatchTurn(register_hotkey(hotkeys, grabs, otherGrabs, Head(cur.keys)))

\* one turn of `for hotkey in keys` of UnRegisterHotKeys
BatchUnRegisterItem ==
    /\ wpc = "batch"
    /\ cur.kind = "UnRegisterHotKeys"
    /\ cur.keys # <<>>
    /\ BatchTurn(unregister_hotkey(hotkeys, grabs, Head(cur.keys)))

\* `let _ = tx.send(Err(e))` inside a batch loop returns
BatchSendErr ==
    /\ wpc = "send"
    /\ CanSend(cur.tx)
    /\ reply' = Send(cur.tx, sending)
    /\ sending' = NoReply
    /\ wpc' = "batch"
    /\ UNCHANGED <<built, hotkeys, grabs, otherGrabs, xq, sent, thread_q, cur,
                   cpc, ret, dropped, hist>>

\* `let _ = tx.send(Ok(()))` after a batch loop returns; tx is dropped
BatchSendOk ==
    /\ wpc = "batch"
    /\ cur.keys = <<>>
    /\ CanSend(cur.tx)
    /\ reply' = Send(cur.tx, Ok)
    /\ cur' = NoMsg
    /\ wpc' = "sleep"
    /\ batch_log' = <<>>
    /\ UNCHANGED <<built, hotkeys, grabs, otherGrabs, xq, sent, thread_q, sending,
                   cpc, ret, dropped, last_unreg, notes>>

\* mutant: DropThread closes the display but the `return` is missing
RecvDropThreadNoReturn ==
    /\ wpc = "recv"
    /\ thread_q # <<>>
    /\ Head(thread_q).kind = "DropThread"
    /\ wpc' = "sleep"
    /\ thread_q' = Tail(thread_q)
    /\ xq' = <<>>
    /\ UNCHANGED <<built, hotkeys, grabs, otherGrabs, sent, cur, sending,
                   reply, cpc, ret, dropped, hist>>

\* ThreadMessage::DropThread: XCloseDisplay and return; thread_rx is dropped
RecvDropThread ==
    /\ wpc = "recv"
    /\ thread_q # <<>>
    /\ Head(thread_q).kind = "DropThread"
    /\ wpc' = "done"
    /\ thread_q' = <<>>
    /\ xq' = <<>>
    /\ UNCHANGED <<built, hotkeys, grabs, otherGrabs, sent, cur, sending,
                   reply, cpc, ret, dropped, hist>>

\* mutant: the worker never wakes from its sleep
SleepNeverEnds ==
    /\ wpc = "sleep"
    /\ UNCHANGED vars

\* std::thread::sleep(50 ms) ends and the loop starts over
Sleep ==
    /\ wpc = "sleep"
    /\ wpc' = "drain"
    /\ UNCHANGED <<built, hotkeys, grabs, otherGrabs, xq, sent, thread_q, cur, sending,
                   reply, cpc, ret, dropped, hist>>

(* ---------------------------- environment ------------------------------ *)

\* the X server queues a key event on the open connection
XEvent ==
    /\ wpc \notin {"start", "done"}
    /\ Len(xq) < MaxPending
    /\ \E e \in Events : xq' = Append(xq, e)
    /\ UNCHANGED <<built, hotkeys, grabs, otherGrabs, sent, thread_q, wpc, cur, sending,
                   reply, cpc, ret, dropped, hist>>

\* another client grabs a combination this client does not hold
OtherGrab ==
    /\ \E g \in OtherCombos \ (grabs \cup otherGrabs) :
           otherGrabs' = otherGrabs \cup {g}
    /\ UNCHANGED <<built, hotkeys, grabs, xq, sent, thread_q, wpc, cur, sending,
                   reply, cpc, ret, dropped, hist>>

\* the other client releases a grab
OtherUngrab ==
    /\ \E g \in otherGrabs : otherGrabs' = otherGrabs \ {g}
    /\ UNCHANGED <<built, hotkeys, grabs, xq, sent, thread_q, wpc, cur, sending,
                   reply, cpc, ret, dropped, hist>>

(* ------------------------------- Spec ---------------------------------- *)

Next ==
    \/ \E c \in Callers : Register(c)
    \/ \E c \in Callers : Unregister(c)
    \/ \E c \in Callers : RegisterAll(c)
    \/ \E c \in Callers : UnregisterAll(c)
    \/ \E c \in Callers : Return(c)
    \/ DropManager
    \/ XlibOpen
    \/ XlibOpenFails
    \/ DrainEvent
    \/ DrainDone
    \/ RecvNone
    \/ RecvRegisterHotKey
    \/ RecvUnRegisterHotKey
    \/ RecvBatch
    \/ BatchRegisterItem
    \/ BatchUnRegisterItem
    \/ BatchSendErr
    \/ BatchSendOk
    \/ RecvDropThread
    \/ Sleep
    \/ XEvent
    \/ OtherGrab
    \/ OtherUngrab

Spec == Init /\ [][Next]_vars

(* ------------------------------ fairness ------------------------------- *)

\* a step of the worker thread
WorkerStep ==
    \/ XlibOpen \/ XlibOpenFails
    \/ DrainEvent \/ DrainDone
    \/ RecvNone \/ RecvRegisterHotKey \/ RecvUnRegisterHotKey \/ RecvBatch
    \/ BatchRegisterItem \/ BatchUnRegisterItem \/ BatchSendErr \/ BatchSendOk
    \/ RecvDropThread
    \/ Sleep

\* the part of the behaviours the liveness of calls is checked on: the
\* callers use a registrable hotkey and the untranslatable one, the keyboard
\* sends press and release of Control+F1, and no other client grabs
LiveHotKeys == { HotKeyNew({"CONTROL"}, "F1"), HotKeyNew({"CONTROL"}, "F13") }
LiveEnvironment ==
    /\ \A i \in 1..Len(thread_q) :
          \A j \in 1..Len(thread_q[i].keys) : thread_q[i].keys[j] \in LiveHotKeys
    /\ \A i \in 1..Len(xq) : xq[i].state = ControlMask
    /\ otherGrabs = {}

NextLive ==
    \/ \E c \in Callers : Register(c) /\ LiveEnvironment'
    \/ \E c \in Callers : Unregister(c) /\ LiveEnvironment'
    \/ \E c \in Callers : RegisterAll(c) /\ LiveEnvironment'
    \/ \E c \in Callers : UnregisterAll(c) /\ LiveEnvironment'
    \/ \E c \in Callers : Return(c)
    \/ DropManager
    \/ WorkerStep
    \/ XEvent /\ LiveEnvironment'

\* the scheduler lets the worker thread run while it can take a step, and
\* lets a caller thread return from rx.recv() once it can; the callers'
\* calls and the X server's events are not forced
FairSpec ==
    /\ Init /\ [][NextLive]_vars
    /\ WF_vars(WorkerStep)
    /\ \A c \in Callers : WF_vars(Return(c))

(* ----------------------- following notifications ---------------------- *)

\* the part of the behaviours the order of notifications is followed on: the
\* callers use Control+F1 and Control+NumLock (which shares its key symbol),
\* the keyboard sends press and release of Control+F1, and no other client
\* grabs
NotedHotKeys == { HotKeyNew({"CONTROL"}, "F1"), HotKeyNew({"CONTROL"}, "NumLock") }
NotedEnvironment ==
    /\ \A i \in 1..Len(thread_q) :
          \A j \in 1..Len(thread_q[i].keys) : thread_q[i].keys[j] \in NotedHotKeys
    /\ \A i \in 1..Len(xq) : xq[i].state = ControlMask
    /\ otherGrabs = {}

NextNoted ==
    \/ \E c \in Callers : Register(c) /\ NotedEnvironment'
    \/ \E c \in Callers : Unregister(c) /\ NotedEnvironment'
    \/ \E c \in Callers : RegisterAll(c) /\ NotedEnvironment'
    \/ \E c \in Callers : UnregisterAll(c) /\ NotedEnvironment'
    \/ \E c \in Callers : Return(c)
    \/ DropManager
    \/ WorkerStep
    \/ XEvent /\ NotedEnvironment'

\* the program with the notifications it sends followed from the start
InitNoted == Constructed /\ notes = [NoNotes EXCEPT !.kept = TRUE]

SpecNoted == InitNoted /\ [][NextNoted]_vars

(* ---------------------- building HotKey values ------------------------ *)

\* the application builds its first value, then its second, with HotKey::new
NewHotKey ==
    /\ \E mods \in NewModifiers : \E key \in NewCodes :
          IF h1 = NotBuilt
          THEN h1' = ParsedOk(HotKeyNew(mods, key)) /\ h2' = h2
          ELSE h2 = NotBuilt /\ h2' = ParsedOk(HotKeyNew(mods, key)) /\ h1' = h1
    /\ UNCHANGED <<hotkeys, grabs, otherGrabs, xq, sent, thread_q, wpc, cur, sending,
                   reply, cpc, ret, dropped, hist>>

\* or by parsing a string: "...".parse::<HotKey>()
ParseHotKey ==
    /\ \E str \in HotKeyStrings :
          IF h1 = NotBuilt
          THEN h1' = parse_hotkey(str) /\ h2' = h2
          ELSE h2 = NotBuilt /\ h2' = parse_hotkey(str) /\ h1' = h1
    /\ UNCHANGED <<hotkeys, grabs, otherGrabs, xq, sent, thread_q, wpc, cur, sending,
                   reply, cpc, ret, dropped, hist>>

NextHotKey ==
    \/ NewHotKey
    \/ ParseHotKey

\* the specification of the HotKey constructors alone
SpecHotKey == Init /\ [][NextHotKey]_vars

(* --------------------------- claim vocabulary -------------------------- *)

\* the native keycode and base modifier mask of a translatable hotkey
KeycodeOf(h) == XKeysymToKeycode(keycode_to_x11_scancode(h.key))
MaskOf(h) == modifiers_to_x11_mods(h.mods)
Translatable(h) == keycode_to_x11_scancode(h.key) # NoKeysym

\* the entry list of a keycode; an absent keycode has no entries
EntriesOf(hk, keycode) == IF keycode \in DOMAIN hk THEN hk[keycode] ELSE <<>>

\* the entries of a list that carry modifier mask m
WithMask(entry, m) == SelectSeq(entry, LAMBDA e : e[2] = m)

\* how often notification n occurs in a list of sent events
Count(s, n) == Cardinality({ i \in 1..Len(s) : s[i] = n })

\* this step is the worker running register_hotkey: for a single
\* RegisterHotKey message, or as one turn of the RegisterHotKeys loop
RegisterStep ==
    \/ /\ wpc = "recv" /\ thread_q # <<>>
       /\ Head(thread_q).kind = "RegisterHotKey"
       /\ wpc' = "sleep"
    \/ /\ wpc = "batch" /\ cur.kind = "RegisterHotKeys" /\ cur.keys # <<>>
       /\ cur'.keys = Tail(cur.keys)

\* this step is the worker running unregister_hotkey
UnRegisterStep ==
    \/ /\ wpc = "recv" /\ thread_q # <<>>
       /\ Head(thread_q).kind = "UnRegisterHotKey"
       /\ wpc' = "sleep"
    \/ /\ wpc = "batch" /\ cur.kind = "UnRegisterHotKeys" /\ cur.keys # <<>>
       /\ cur'.keys = Tail(cur.keys)

\* the hotkey such a step works on
StepHotKey == IF wpc = "recv" THEN Head(thread_q).keys[1] ELSE Head(cur.keys)

\* the result such a step produces: a single message's result is sent on
\* its reply channel at once; in a batch loop an Err goes to tx.send next
\* and an Ok is dropped
StepResult ==
    IF wpc = "recv" THEN reply'[Head(thread_q).tx][1]
    ELSE IF wpc' = "send" THEN sending' ELSE Ok

\* the Shift / Control / Alt / Super bits of a modifier state, bit by bit
BaseBits(state) ==
      (IF (state \div ShiftMask) % 2 = 1 THEN ShiftMask ELSE 0)
    + (IF (state \div ControlMask) % 2 = 1 THEN ControlMask ELSE 0)
    + (IF (state \div Mod1Mask) % 2 = 1 THEN Mod1Mask ELSE 0)
    + (IF (state \div Mod4Mask) % 2 = 1 THEN Mod4Mask ELSE 0)

\* this step is the drain loop handling the event at the head of the queue
EventStep == wpc = "drain" /\ xq # <<>> /\ xq' = Tail(xq)

(* -------------------------------- C1 ----------------------------------- *)

\* C1: whenever the worker runs register_hotkey (single or batch item) on a
\* hotkey whose (keycode, base mask) already has an entry in the table, the
\* result is AlreadyRegistered(h), the keycode's list is left as it was (the
\* existing entry keeps its id and pressed flag) and it holds exactly one
\* entry with that mask.
C1_DuplicateRejected ==
    [][ RegisterStep =>
          LET h == StepHotKey
              before == EntriesOf(hotkeys, KeycodeOf(h))
              after == EntriesOf(hotkeys', KeycodeOf(h))
          IN  (Translatable(h) /\ WithMask(before, MaskOf(h)) # <<>>)
              => /\ StepResult = AlreadyRegistered(h)
                 /\ after = before
                 /\ Len(WithMask(after, MaskOf(h))) = 1
      ]_vars

\* a caller's reply channel holds AlreadyRegistered(h) for a single register
\* of h while another hotkey's entry (same keycode and mask, other id) sits
\* untouched in the table
C1_Witness ==
    \E c \in Callers : \E h \in HotKeys :
        /\ Translatable(h)
        /\ reply[c] = <<AlreadyRegistered(h)>>
        /\ wpc = "sleep"
        /\ \E e \in { EntriesOf(hotkeys, KeycodeOf(h))[i] :
                        i \in 1..Len(EntriesOf(hotkeys, KeycodeOf(h))) } :
               e[2] = MaskOf(h) /\ e[1] # h.id /\ e[3]

(* -------------------------------- C10 ---------------------------------- *)

\* C10: in every reachable state no keycode's list holds two entries with
\* the same modifier mask.
C10_UniqueMasks ==
    \A k \in DOMAIN hotkeys :
        \A i, j \in 1..Len(hotkeys[k]) :
            i # j => hotkeys[k][i][2] # hotkeys[k][j][2]

\* a list with two entries (two masks on one keycode), after an unregister
\* and a new register changed the order of the list
C10_Witness ==
    \E k \in DOMAIN hotkeys :
        /\ Len(hotkeys[k]) = 2
        /\ hotkeys[k][1][2] = ShiftMask
        /\ hotkeys[k][2][2] = ControlMask

(* -------------------------------- C2 ----------------------------------- *)

\* C2: when the drain loop handles a KeyPress whose keycode and masked
\* modifier state match an entry, then: if the entry was not pressed, exactly
\* one Pressed notification with the entry's id is sent and the entry
\* becomes pressed; if the entry was already pressed (a press was reported
\* and no release has come for the keycode since), nothing is sent for that
\* id and the entry is left as it was.
C2_PressDeduplicated ==
    [][ (EventStep /\ Head(xq).type = KeyPress) =>
          LET event == Head(xq)
              before == EntriesOf(hotkeys, event.keycode)
              after == EntriesOf(hotkeys', event.keycode)
          IN  /\ Len(after) = Len(before)
              /\ \A i \in 1..Len(before) :
                    before[i][2] = BaseBits(event.state) =>
                       IF ~before[i][3]
                       THEN /\ Count(sent', <<before[i][1], "Pressed">>) = 1
                            /\ after[i] = <<before[i][1], before[i][2], TRUE>>
                       ELSE /\ \A n \in 1..Len(sent') : sent'[n][1] # before[i][1]
                            /\ after[i] = before[i]
      ]_vars

\* an entry is pressed (its Pressed was sent) and the next event the drain
\* loop takes is a further KeyPress that matches it
C2_Witness ==
    /\ wpc = "drain" /\ xq # <<>>
    /\ Head(xq).type = KeyPress
    /\ \E i \in 1..Len(EntriesOf(hotkeys, Head(xq).keycode)) :
          LET e == EntriesOf(hotkeys, Head(xq).keycode)[i]
          IN  e[2] = BaseBits(Head(xq).state) /\ e[3]
    /\ ENABLED DrainEvent

(* -------------------------------- C3 ----------------------------------- *)

\* C3: when the drain loop handles a KeyRelease, whatever its modifier
\* state, every pressed entry of its keycode gets exactly one Released
\* notification with its id and its flag is cleared; entries that are not
\* pressed are left alone; and when the keycode has no pressed entry nothing
\* is sent and the table does not change.
C3_ReleaseAnyModifiers ==
    [][ (EventStep /\ Head(xq).type = KeyRelease) =>
          LET event == Head(xq)
              before == EntriesOf(hotkeys, event.keycode)
              after == EntriesOf(hotkeys', event.keycode)
          IN  /\ Len(after) = Len(before)
              /\ \A i \in 1..Len(before) :
                    IF before[i][3]
                    THEN /\ Count(sent', <<before[i][1], "Released">>) = 1
                         /\ after[i] = <<before[i][1], before[i][2], FALSE>>
                    ELSE after[i] = before[i]
              /\ Len(sent') = Cardinality({ i \in 1..Len(before) : before[i][3] })
              /\ (\A i \in 1..Len(before) : ~before[i][3]) => hotkeys' = hotkeys
      ]_vars

\* one KeyRelease has just released two entries of one keycode, whose masks
\* differ: at least one of them does not match the event's modifier state
C3_Witness ==
    /\ wpc = "drain"
    /\ Len(sent) = 2
    /\ sent[1][2] = "Released" /\ sent[2][2] = "Released"
    /\ sent[1][1] # sent[2][1]

(* -------------------------------- C4 ----------------------------------- *)

\* C4: for an entry with base mask M that is not pressed, a KeyPress on its
\* keycode with state M, M+NumLock, M+CapsLock or M+NumLock+CapsLock sends
\* one Pressed with the entry's id; a KeyPress whose Shift/Control/Alt/Super
\* bits differ from M sends nothing for that id and leaves the entry alone.
C4_LockModifiersIgnored ==
    [][ (EventStep /\ Head(xq).type = KeyPress) =>
          LET event == Head(xq)
              before == EntriesOf(hotkeys, event.keycode)
              after == EntriesOf(hotkeys', event.keycode)
          IN  \A i \in 1..Len(before) :
                 LET M == before[i][2]
                 IN  /\ ( /\ ~before[i][3]
                          /\ event.state \in {M, M + Mod2Mask, M + LockMask,
                                              M + Mod2Mask + LockMask} )
                        => Count(sent', <<before[i][1], "Pressed">>) = 1
                     /\ BaseBits(event.state) # M
                        => /\ \A n \in 1..Len(sent') : sent'[n][1] # before[i][1]
                           /\ after[i] = before[i]
      ]_vars

\* the drain loop is about to take a KeyPress with NumLock and CapsLock on
\* for an entry that is not pressed, beside an entry with another mask
C4_Witness ==
    /\ wpc = "drain" /\ xq # <<>>
    /\ Head(xq).type = KeyPress
    /\ LET entry == EntriesOf(hotkeys, Head(xq).keycode)
       IN  /\ Len(entry) = 2
           /\ \E i \in 1..2 :
                 /\ Head(xq).state = entry[i][2] + Mod2Mask + LockMask
                 /\ ~entry[i][3]
    /\ ENABLED DrainEvent

(* ------------------------ batch claim vocabulary ----------------------- *)

\* the failing items of the batch loop the worker is in, in loop order
LogErrs == SelectSeq(batch_log, LAMBDA p : IsErr(p[2]))

\* the table holds hotkey h's own entry: its id under its keycode and mask
HasEntry(hk, h) ==
    \E i \in 1..Len(EntriesOf(hk, KeycodeOf(h))) :
        /\ EntriesOf(hk, KeycodeOf(h))[i][1] = h.id
        /\ EntriesOf(hk, KeycodeOf(h))[i][2] = MaskOf(h)

\* some list of the table holds an entry with hotkey h's id
Registered(hk, h) ==
    \E k \in DOMAIN hk : \E i \in 1..Len(hk[k]) : hk[k][i][1] = h.id

\* the worker has run the loop of the batch in cur over all its items and
\* has not yet sent the closing Ok
BatchComplete == wpc = "batch" /\ cur.keys = <<>>

(* -------------------------------- C5 ----------------------------------- *)

\* C5: while the worker is in (or at the end of) a register_all batch, every
\* item of the batch that registered successfully still has its entry in the
\* table, whatever failed after it; and once an item has failed, the batch's
\* caller gets an error: an Err is on its way to the caller (being sent or
\* in the reply channel), or the caller has returned with an Err.
C5_PartialApplication ==
    cur.kind = "RegisterHotKeys" =>
        /\ \A i \in 1..Len(batch_log) :
              batch_log[i][2] = Ok => HasEntry(hotkeys, batch_log[i][1])
        /\ LogErrs # <<>> =>
              IF cur.tx # 0
              THEN \/ reply[cur.tx] # <<>> /\ IsErr(reply[cur.tx][1])
                   \/ wpc = "send" /\ IsErr(sending)
              ELSE cpc[cur.caller] = "returned" => IsErr(ret[cur.caller])
        /\ (cur.tx = 0 /\ cpc[cur.caller] = "returned") =>
              (IsErr(ret[cur.caller]) /\ LogErrs # <<>>)

\* register_all([valid, duplicate]) has returned an error: the batch is
\* complete, its second item duplicated a combination registered earlier,
\* and the first item's entry is in the table
C5_Witness ==
    /\ cur.kind = "RegisterHotKeys" /\ BatchComplete
    /\ Len(batch_log) = 2
    /\ batch_log[1][2] = Ok
    /\ batch_log[2][2] = AlreadyRegistered(batch_log[2][1])
    /\ MaskOf(batch_log[1][1]) # MaskOf(batch_log[2][1])
    /\ cur.tx = 0 /\ cpc[cur.caller] = "returned"
    /\ ret[cur.caller] = AlreadyRegistered(batch_log[2][1])
    /\ HasEntry(hotkeys, batch_log[1][1])

(* -------------------------------- C6 ----------------------------------- *)

UnregisterAllReplies ==
    cur.kind = "UnRegisterHotKeys" =>
        /\ \A i \in 1..Len(batch_log) :
              batch_log[i][2] = IF Translatable(batch_log[i][1]) THEN Ok
                                ELSE FailedToUnRegister(batch_log[i][1])
        /\ IF LogErrs = <<>>
           THEN cur.tx # 0 /\ reply[cur.tx] = <<>> /\ cpc[cur.tx] = "waiting"
           ELSE IF cur.tx # 0
                THEN \/ reply[cur.tx] = <<LogErrs[1][2]>>
                     \/ /\ reply[cur.tx] = <<>> /\ Len(LogErrs) = 1
                        /\ wpc = "send" /\ sending = LogErrs[1][2]
                ELSE cpc[cur.caller] = "returned"
                        => ret[cur.caller] = LogErrs[1][2]

C8_UnregisterAbsentNoChange ==
    [][ UnRegisterStep =>
          LET h == StepHotKey
          IN  (Translatable(h) /\ ~Registered(hotkeys, h))
              => /\ StepResult = Ok
                 /\ \A k \in DOMAIN hotkeys \cup DOMAIN hotkeys' :
                       EntriesOf(hotkeys', k) = EntriesOf(hotkeys, k)
      ]_vars

(* -------------------------------- C9 ----------------------------------- *)

\* C9: when the worker runs register_hotkey on h right after an
\* unregister_hotkey of h that removed h's entry (h had been registered),
\* and no other client holds one of h's four grab combinations, the result
\* is Ok and the table then holds exactly one entry with h's mask under h's
\* keycode: h's id, not pressed, also when the removed entry was pressed.
C9_RoundTrip ==
    [][ RegisterStep =>
          LET h == StepHotKey
              after == EntriesOf(hotkeys', KeycodeOf(h))
          IN  ( /\ last_unreg.id # 0 /\ last_unreg.id = h.id
                /\ ~last_unreg.again
                /\ otherGrabs \cap Variants(KeycodeOf(h), MaskOf(h)) = {} )
              => /\ StepResult = Ok
                 /\ WithMask(after, MaskOf(h)) = <<<<h.id, MaskOf(h), FALSE>>>>
                 /\ Cardinality({ i \in 1..Len(after) : after[i][1] = h.id }) = 1
      ]_vars

\* h was registered, pressed, unregistered while pressed and registered
\* again: its new entry is in the table, not pressed
C9_Witness ==
    /\ last_unreg.again /\ last_unreg.pressed
    /\ wpc = "sleep"
    /\ \E h \in HotKeys :
          /\ h.id = last_unreg.id
          /\ WithMask(EntriesOf(hotkeys, KeycodeOf(h)), MaskOf(h))
                = <<<<h.id, MaskOf(h), FALSE>>>>

(* -------------------------------- C11 ---------------------------------- *)

\* C11: once the worker has ended without the handle being dropped (the
\* display could not be opened), no call hangs: a caller waiting in
\* rx.recv() finds its reply channel disconnected, so its return is enabled;
\* and every call that returns then returns Ok, while the table and the
\* grabs are empty (nothing was registered).
C11_DeadWorkerCallsReturnOk ==
    /\ [](\A c \in Callers :
              (wpc = "done" /\ ~dropped /\ cpc[c] = "waiting")
                 => (reply[c] = <<>> /\ ~TxAlive(c) /\ ENABLED Return(c)))
    /\ [][ \A c \in Callers :
              (wpc = "done" /\ ~dropped /\ cpc[c] = "waiting" /\ cpc'[c] = "returned")
                 => (ret'[c] = Ok /\ hotkeys' = <<>> /\ grabs' = {})
         ]_vars

\* the worker ended at startup, and a register_all call made while it was
\* starting has returned Ok although nothing is registered
C11_Witness ==
    /\ wpc = "done" /\ ~dropped
    /\ \E c \in Callers : cpc[c] = "returned" /\ ret[c] = Ok
    /\ hotkeys = <<>> /\ grabs = {}

(* -------------------------------- C12 ---------------------------------- *)

\* C12: dropping the handle puts DropThread at the end of the command
\* channel of a live worker; the step in which the worker takes DropThread
\* from the channel ends it (the native queue is gone with the connection);
\* and once the worker has ended it stays ended: no message is taken from
\* the channel, no reply is sent, the table does not change and no
\* notification is sent.
C12_Shutdown ==
    [][ /\ (~dropped /\ dropped' /\ wpc # "done")
              => /\ Len(thread_q') = Len(thread_q) + 1
                 /\ thread_q'[Len(thread_q')].kind = "DropThread"
                 /\ SubSeq(thread_q', 1, Len(thread_q)) = thread_q
        /\ ( /\ wpc = "recv" /\ thread_q # <<>>
             /\ Head(thread_q).kind = "DropThread"
             /\ thread_q' # thread_q )
              => (wpc' = "done" /\ xq' = <<>>)
        /\ wpc = "done"
              => /\ wpc' = "done"
                 /\ thread_q' = thread_q /\ thread_q = <<>>
                 /\ xq' = xq /\ cur' = cur /\ sending' = sending
                 /\ \A c \in Callers : reply'[c] = <<>>
                 /\ hotkeys' = hotkeys /\ grabs' = grabs
                 /\ sent' = sent
      ]_vars

\* the worker has ended on DropThread while the table still holds a pressed
\* entry, for which no Released will ever be sent
C12_Witness ==
    /\ wpc = "done" /\ dropped
    /\ \E k \in DOMAIN hotkeys : \E i \in 1..Len(hotkeys[k]) : hotkeys[k][i][3]

(* -------------------------------- C13 ---------------------------------- *)

\* C13: of two HotKey values built by HotKey::new or by parsing, those with
\* equal (mods, key) compare equal and have equal ids, and those with
\* distinct (mods, key) compare unequal and have different ids.
C13_HotKeyIdentity ==
    (h1.kind = "Ok" /\ h2.kind = "Ok") =>
        LET a == h1.hotkey
            b == h2.hotkey
        IN  IF a.mods = b.mods /\ a.key = b.key
            THEN a = b /\ a.id = b.id
            ELSE a # b /\ a.id # b.id

(* ------------------------ grab claim vocabulary ------------------------ *)

\* the four combinations of hotkey h, spelled out: its keycode with mask M,
\* M + NumLock, M + CapsLock and M + NumLock + CapsLock
FourGrabs(h) ==
    { <<KeycodeOf(h), MaskOf(h)>>,
      <<KeycodeOf(h), MaskOf(h) + Mod2Mask>>,
      <<KeycodeOf(h), MaskOf(h) + LockMask>>,
      <<KeycodeOf(h), MaskOf(h) + Mod2Mask + LockMask>> }

(* -------------------------------- C14 ---------------------------------- *)

\* C14: whenever the worker runs register_hotkey on a translatable hotkey h
\* while another client holds one of h's four combinations, the result is
\* AlreadyRegistered(h), afterwards this client holds none of the four
\* combinations, and the table is exactly what it was.
C14_GrabConflictRollback ==
    [][ RegisterStep =>
          LET h == StepHotKey
          IN  (Translatable(h) /\ FourGrabs(h) \cap otherGrabs # {})
              => /\ StepResult = AlreadyRegistered(h)
                 /\ grabs' \cap FourGrabs(h) = {}
                 /\ hotkeys' = hotkeys
      ]_vars

\* a register of h was refused because the other client holds h's second
\* combination (M + NumLock): the grab of the first, taken before the
\* refusal, is not held, while the grabs and the entry of another hotkey
\* on the same keycode are in place
C14_Witness ==
    \E c \in Callers : \E h \in HotKeys :
        /\ wpc = "sleep"
        /\ reply[c] = <<AlreadyRegistered(h)>>
        /\ <<KeycodeOf(h), MaskOf(h)>> \notin otherGrabs
        /\ <<KeycodeOf(h), MaskOf(h) + Mod2Mask>> \in otherGrabs
        /\ grabs \cap FourGrabs(h) = {}
        /\ grabs # {}
        /\ Len(EntriesOf(hotkeys, KeycodeOf(h))) = 1

(* -------------------------------- C15 ---------------------------------- *)

\* C15: a register_hotkey of h that succeeds leaves this client holding all
\* four combinations of h (four different grabs), leaves its other grabs as
\* they were, and appends the one entry (h.id, M, FALSE) to the list of h's
\* keycode; an unregister_hotkey of a translatable h leaves none of the four
\* held, leaves the other grabs as they were, and removes from the list
\* exactly the entries with mask M.
C15_GrabFanOut ==
    [][ /\ RegisterStep =>
             LET h == StepHotKey
                 entry == EntriesOf(hotkeys, KeycodeOf(h))
             IN  StepResult = Ok
                 => /\ Cardinality(FourGrabs(h)) = 4
                    /\ FourGrabs(h) \subseteq grabs'
                    /\ grabs' \ FourGrabs(h) = grabs \ FourGrabs(h)
                    /\ EntriesOf(hotkeys', KeycodeOf(h))
                          = Append(entry, <<h.id, MaskOf(h), FALSE>>)
        /\ UnRegisterStep =>
             LET h == StepHotKey
                 entry == EntriesOf(hotkeys, KeycodeOf(h))
             IN  Translatable(h)
                 => /\ grabs' \cap FourGrabs(h) = {}
                    /\ grabs' \ FourGrabs(h) = grabs \ FourGrabs(h)
                    /\ EntriesOf(hotkeys', KeycodeOf(h))
                          = SelectSeq(entry, LAMBDA e : e[2] # MaskOf(h))
      ]_vars

\* two hotkeys with different masks are registered on one keycode and an
\* unregister has been answered: eight grabs went down to four
C15_Witness ==
    \E c \in Callers :
        /\ wpc = "sleep"
        /\ reply[c] = <<Ok>>
        /\ last_unreg.id # 0 /\ ~last_unreg.again
        /\ Cardinality(grabs) = 4
        /\ \E k \in DOMAIN hotkeys : Len(hotkeys[k]) = 1

(* -------------------------------- C16 ---------------------------------- *)

\* C16: register_hotkey of a hotkey whose key has no native translation
\* gives FailedToRegister and unregister_hotkey of it gives
\* FailedToUnRegister(h), and both leave the grabs and the table exactly as
\* they were; unregister_hotkey of a translatable hotkey always gives Ok,
\* whether or not the hotkey is registered.
C16_UntranslatableKey ==
    [][ /\ RegisterStep =>
             (~Translatable(StepHotKey)
                => /\ StepResult = FailedToRegister(StepHotKey)
                   /\ grabs' = grabs /\ hotkeys' = hotkeys)
        /\ UnRegisterStep =>
             IF Translatable(StepHotKey)
             THEN StepResult = Ok
             ELSE /\ StepResult = FailedToUnRegister(StepHotKey)
                  /\ grabs' = grabs /\ hotkeys' = hotkeys
      ]_vars

\* an unregister of the untranslatable hotkey has been answered with
\* FailedToUnRegister while a hotkey is registered, its grabs held
C16_Witness ==
    \E c \in Callers : \E h \in HotKeys :
        /\ ~Translatable(h)
        /\ wpc = "sleep"
        /\ reply[c] = <<FailedToUnRegister(h)>>
        /\ grabs # {}
        /\ \E k \in DOMAIN hotkeys : hotkeys[k] # <<>>

(* -------------------------------- C17 ---------------------------------- *)

C18_WorkerNeverBlocks ==
    /\ ~(wpc = "send" /\ ~CanSend(cur.tx))
    /\ ~(cur.kind # "None" /\ BatchComplete /\ ~CanSend(cur.tx))

(* -------------------------------- C19 ---------------------------------- *)

PressedIds(hk) ==
    UNION { { hk[k][i][1] : i \in { j \in 1..Len(hk[k]) : hk[k][j][3] } } :
            k \in DOMAIN hk }

\* the ids with an unmatched Pressed whose entry is no longer pressed: the
\* Released that would match the Pressed cannot be sent any more
Orphaned(n, hk) == n.unmatched \ PressedIds(hk)

\* C20 as stated: in the notifications sent for one hotkey id, over any
\* sequence of key events and register / unregister commands, Pressed and
\* Released strictly alternate starting with Pressed: a Pressed is sent only
\* for an id with no unmatched Pressed, and a Released only for an id with
\* an unmatched Pressed.
C20_StrictAlternation ==
    [][ EventStep =>
          /\ IdsSent(sent', "Pressed") \cap notes.unmatched = {}
          /\ IdsSent(sent', "Released") \subseteq notes.unmatched ]_vars

\* C20 amended: a Released is sent only for an id with an unmatched Pressed
\* (and whose entry is pressed); a Pressed is sent for an id that has an
\* unmatched Pressed only when that id's pressed entry was removed from the
\* table in between; and the only step that leaves an unmatched Pressed
\* without a pressed entry is unregister_hotkey returning Ok after removing
\* the id's entry while its pressed flag was set.
C20_AlternationPerEntry ==
    [][ /\ EventStep =>
              /\ IdsSent(sent', "Released")
                    \subseteq (notes.unmatched \cap PressedIds(hotkeys))
              /\ IdsSent(sent', "Pressed") \cap notes.unmatched
                    \subseteq Orphaned(notes, hotkeys)
              /\ IdsSent(sent', "Pressed") \cap PressedIds(hotkeys) = {}
        /\ \A id \in Orphaned(notes', hotkeys') \ Orphaned(notes, hotkeys) :
              /\ UnRegisterStep
              /\ StepResult = Ok
              /\ LET before == EntriesOf(hotkeys, KeycodeOf(StepHotKey))
                 IN  \E i \in 1..Len(before) :
                        before[i] = <<id, MaskOf(StepHotKey), TRUE>> ]_vars

\* the worker has just sent a second Pressed for an id whose first Pressed
\* is unmatched: its entry was unregistered while pressed, registered again
\* and the key pressed again
C20_Witness ==
    /\ notes.twice # {}
    /\ IdsSent(sent, "Pressed") \cap notes.twice # {}
    /\ notes.twice \subseteq PressedIds(hotkeys)

(* -------------------------------- C21 ---------------------------------- *)

\* caller c's register_all / unregister_all returns in this step while the
\* worker holds the batch of that call (its reply Sender is in cur)
BatchReturnStep(c) ==
    /\ cpc[c] = "waiting" /\ cpc'[c] = "returned"
    /\ cur.tx = c
    /\ cur.kind \in {"RegisterHotKeys", "UnRegisterHotKeys"}

\* C21: a register_all or unregister_all call returns to its caller only
\* after the worker has attempted every item of the batch: when the call
\* returns, no item of its batch is still waiting in the worker's loop, also
\* when some items fail.
C21_BatchReturnsAfterAllItems ==
    [][ \A c \in Callers : BatchReturnStep(c) => cur.keys = <<>> ]_vars

(* -------------------------------- C22 ---------------------------------- *)

\* C22: unregister_hotkey(h) touches only h: every table entry whose id is
\* not h.id, whatever its keycode, is still in its list afterwards
\* (unchanged), and the grabs held for it are still held, also when its
\* logical key shares the native key symbol of h's (NumLock and F1).
C22_UnregisterOnlyOwn ==
    [][ UnRegisterStep =>
          LET h == StepHotKey
          IN  \A k \in DOMAIN hotkeys : \A i \in 1..Len(hotkeys[k]) :
                 hotkeys[k][i][1] # h.id
                 => /\ \E j \in 1..Len(EntriesOf(hotkeys', k)) :
                          hotkeys'[k][j] = hotkeys[k][i]
                    /\ (Variants(k, hotkeys[k][i][2]) \cap grabs) \subseteq grabs'
      ]_vars

(* -------------------------------- C23 ---------------------------------- *)

\* the grabs the entries of table hk call for: the four lock variants of
\* every (keycode, mask) entry
TableGrabs(hk) ==
    UNION { UNION { Variants(k, hk[k][i][2]) : i \in 1..Len(hk[k]) } :
            k \in DOMAIN hk }

\* C23: whenever the worker is running and between commands (draining
\* events, at try_recv, or asleep), the grabs this client holds are exactly
\* the four lock variants of every entry of the table: no entry lacks a grab
\* and no grab is held without an entry.
C23_GrabTableConsistency ==
    wpc \in {"drain", "recv", "sleep"} => grabs = TableGrabs(hotkeys)

\* the worker is at try_recv with two entries and their eight grabs, after a
\* call that failed has returned its error
C23_Witness ==
    \E c \in Callers :
        /\ wpc = "recv"
        /\ cpc[c] = "returned" /\ IsErr(ret[c])
        /\ Cardinality(grabs) = 8
        /\ \E k \in DOMAIN hotkeys : Len(hotkeys[k]) = 2

(* -------------------------------- C24 ---------------------------------- *)

\* C24: parse_hotkey is total over '+'-separated token sequences: whatever
\* string the application parses, the value it gets is Ok(HotKey) or an Err
\* value, and the call never aborts; in particular a string of two or more
\* tokens that are all modifiers yields an Err.
C24_ParseHotKeyTotal ==
    \A h \in {h1, h2} : h # NotBuilt => h.kind \in {"Ok", "Err"}

====
